---------------------------- MODULE Spec2Model ----------------------------
(***************************************************************************)
(* A model of the Scheme interpreter of src/code/code.py (lispy for        *)
(* CircuitPython): the expander, the environment chain, the trampolined    *)
(* evaluator, the quasiquote engine, call/cc, and the read-eval-print loop *)
(* that load runs.                                                         *)
(*                                                                         *)
(* Python values are tagged records.  Every Python function that can       *)
(* raise returns a result record [st, val, exc]: the interpreter's mutable *)
(* state after the call, the value returned, and the exception raised      *)
(* (NoExc when it returned).  The reader is not modelled: a form is the    *)
(* tree read() returns.  to_string is not modelled: a SyntaxError keeps    *)
(* the offending form and the message apart instead of their rendering.    *)
(***************************************************************************)
EXTENDS Integers, Sequences, FiniteSets, TLC

(***************************************************************************)
(* Bounds of the model.                                                    *)
(***************************************************************************)
\* iterations of the while loop of one eval invocation after which the evaluation
\* is reported still running
MaxSteps == 80
\* environments nested inside global_env in the environment scenarios
MaxChain == 2
\* iterations of a tail-recursive loop
MaxIter == 15
\* parameters of a closure, and arguments it is applied to
MaxParams == 3
MaxArgs == 3
\* begin forms nested around a define-macro
MaxBegin == 2
\* operands of and / or
MaxOperands == 3
\* clauses of a cond
MaxClauses == 3
\* pending forms between a call/cc and the use of its escape procedure
MaxNest == 2
\* elements of a quasiquote template
MaxTemplateLen == 3

(***************************************************************************)
(* Values.                                                                 *)
(***************************************************************************)
Sym(s) == [tag |-> "sym", sym |-> s]
Num(n) == [tag |-> "int", int |-> n]
Bool(b) == [tag |-> "bool", bool |-> b]
Str(s) == [tag |-> "str", str |-> s]
List(l) == [tag |-> "list", list |-> l]
None == [tag |-> "none"]
Procedure(parms, exp, env) == [tag |-> "proc", parms |-> parms, exp |-> exp, env |-> env]
Native(n) == [tag |-> "native", name |-> n]

_quote == Sym("quote")
_if == Sym("if")
_cond == Sym("cond")
_set == Sym("set!")
_define == Sym("define")
_lambda == Sym("lambda")
_begin == Sym("begin")
_definemacro == Sym("define-macro")
_quasiquote == Sym("quasiquote")
_unquote == Sym("unquote")
_unquotesplicing == Sym("unquote-splicing")
_append == Sym("append")
_cons == Sym("cons")
_let == Sym("let")

isa_list(x) == x.tag = "list"
isa_Symbol(x) == x.tag = "sym"
\* x[0] of a non-empty list; None otherwise
head(x) == IF isa_list(x) /\ x.list # <<>> THEN x.list[1] ELSE None

\* Python's truth value of an object (the test of `if` and `cond`, op.not_)
truthy(v) ==
    CASE v.tag = "bool" -> v.bool
      [] v.tag = "int" -> v.int # 0
      [] v.tag = "str" -> v.str # ""
      [] v.tag = "sym" -> v.sym # ""
      [] v.tag = "list" -> v.list # <<>>
      [] v.tag = "none" -> FALSE
      [] OTHER -> TRUE

(***************************************************************************)
(* Exceptions and results.                                                 *)
(***************************************************************************)
NoExc == [exc |-> "none"]
LookupError(name) == [exc |-> "LookupError", msg |-> name]
SyntaxError(x, msg) == [exc |-> "SyntaxError", x |-> x, msg |-> msg]
TypeError(msg) == [exc |-> "TypeError", msg |-> msg]
ValueError(msg) == [exc |-> "ValueError", msg |-> msg]
IndexError(msg) == [exc |-> "IndexError", msg |-> msg]
OSError(msg) == [exc |-> "OSError", msg |-> msg]
\* the ball of one callcc call: RuntimeWarning objects are told apart by identity
RuntimeWarning(b) == [exc |-> "RuntimeWarning", ball |-> b]
\* not an exception of the program: the while loop has not ended after MaxSteps
Running == [exc |-> "running"]

Ret(st, v) == [st |-> st, val |-> v, exc |-> NoExc]
Raise(st, e) == [st |-> st, val |-> None, exc |-> e]
ok(r) == r.exc = NoExc

(***************************************************************************)
(* The interpreter's mutable state, threaded through every call:           *)
(*   envs         the Env objects ever created; envs[1] is global_env      *)
(*   macro_table  the macro table, keyed by symbol name                    *)
(*   balls        retval of the ball of each callcc call                   *)
(*   trace        history of the evaluation (not program state)            *)
(***************************************************************************)
global_env == 1

\* history events
EvEval(d, x, env) == [ev |-> "eval", d |-> d, x |-> x, env |-> env]
EvCallcc(b) == [ev |-> "callcc", ball |-> b]
EvThrow(b, v) == [ev |-> "throw", ball |-> b, retval |-> v]
EvCatch(b, v) == [ev |-> "catch", ball |-> b, retval |-> v]
EvReraise(at, b) == [ev |-> "reraise", at |-> at, ball |-> b]
EvReturn(b) == [ev |-> "return", ball |-> b]
log(st, e) == [st EXCEPT !.trace = Append(@, e)]

(***************************************************************************)
(* Python's calls.  eval, expand, the call of a callable and repl call one *)
(* another; each such call goes through py, the one operator of the model  *)
(* through which the recursion runs.  d is the number of eval invocations  *)
(* active at the call.                                                     *)
(***************************************************************************)
RECURSIVE py(_, _, _, _)
py_eval(x, env, st, d) == py("eval", <<x, env>>, st, d)
py_expand(x, toplevel, st, d) == py("expand", <<x, toplevel>>, st, d)
py_call(proc, args, st, d) == py("call", <<proc, args>>, st, d)
py_repl(forms, st, d) == py("repl", <<forms>>, st, d)
py_let(args, st, d) == py("let", <<args>>, st, d)

(***************************************************************************)
(* class Env                                                               *)
(***************************************************************************)
\* str(p) for a parameter or variable p
str(p) ==
    CASE p.tag = "sym" -> p.sym
      [] p.tag = "str" -> p.str
      [] p.tag = "int" -> ToString(p.int)
      [] OTHER -> "<object>"

\* dict(zip(names, args)): the last of several equal names wins
zip_dict(names, args) ==
    [n \in {names[i] : i \in 1..Len(names)} |->
        args[CHOOSE i \in 1..Len(names) :
                 names[i] = n /\ \A j \in 1..Len(names) : names[j] = n => j <= i]]

\* a faulty variant of Env: no test of the number of arguments, zip stops at the shorter
Env_arity_unchecked(parms, args, outer, st) ==
    LET n == IF isa_Symbol(parms) THEN 0
             ELSE IF Len(args) < Len(parms.list) THEN Len(args) ELSE Len(parms.list)
        storage == IF isa_Symbol(parms) THEN (str(parms) :> List(args))
                   ELSE zip_dict([i \in 1..n |-> str(parms.list[i])], args)
    IN [st |-> [st EXCEPT !.envs = Append(@, [storage |-> storage, outer |-> outer])],
        env |-> Len(st.envs) + 1, exc |-> NoExc]

\* Env(parms, args, outer): [st, env, exc], env the new environment
Env(parms, args, outer, st) ==
    IF isa_Symbol(parms)
    THEN [st |-> [st EXCEPT !.envs = Append(@, [storage |-> (str(parms) :> List(args)),
                                                outer |-> outer])],
          env |-> Len(st.envs) + 1, exc |-> NoExc]
    ELSE IF ~isa_list(parms)
    THEN [st |-> st, env |-> 0, exc |-> TypeError("object has no len()")]
    ELSE IF Len(args) # Len(parms.list)
    THEN [st |-> st, env |-> 0, exc |-> TypeError("expected parms, given args")]
    ELSE [st |-> [st EXCEPT !.envs = Append(@,
                     [storage |-> zip_dict([i \in 1..Len(parms.list) |-> str(parms.list[i])], args),
                      outer |-> outer])],
          env |-> Len(st.envs) + 1, exc |-> NoExc]

\* Env.find: the innermost Env where var appears; 0 stands for raise LookupError(var)
RECURSIVE find(_, _, _)
\* a faulty variant of find: the outer environments are not searched
find_self_only(var, e, st) ==
    IF var \in DOMAIN st.envs[e].storage THEN e ELSE 0

find(var, e, st) ==
    IF var \in DOMAIN st.envs[e].storage THEN e
    ELSE IF st.envs[e].outer = 0 THEN 0
    ELSE find(var, st.envs[e].outer, st)

is_pair(x) == x # List(<<>>) /\ isa_list(x)
cons(x, y) == List(<<x>> \o y.list)


(***************************************************************************)
(* Standard procedures of add_globals (those the scenarios use).           *)
(***************************************************************************)
isnum(v) == v.tag \in {"int", "bool"}
numval(v) == IF v.tag = "bool" THEN (IF v.bool THEN 1 ELSE 0) ELSE v.int

\* Python ==: bool is an int, a Symbol is a str, lists compare elementwise
RECURSIVE py_eq(_, _)
py_eq(a, b) ==
    IF isnum(a) /\ isnum(b) THEN numval(a) = numval(b)
    ELSE IF a.tag \in {"sym", "str"} /\ b.tag \in {"sym", "str"} THEN str(a) = str(b)
    ELSE IF isa_list(a) /\ isa_list(b)
    THEN Len(a.list) = Len(b.list) /\ \A i \in 1..Len(a.list) : py_eq(a.list[i], b.list[i])
    ELSE a = b

\* operator.add: numbers add, lists and strings concatenate
op_add(a, b, st) ==
    IF isnum(a) /\ isnum(b) THEN Ret(st, Num(numval(a) + numval(b)))
    ELSE IF isa_list(a) /\ isa_list(b) THEN Ret(st, List(a.list \o b.list))
    ELSE IF a.tag \in {"sym", "str"} /\ b.tag \in {"sym", "str"} THEN Ret(st, Str(str(a) \o str(b)))
    ELSE Raise(st, TypeError("unsupported operand type(s) for +"))

NativeNames ==
    {"+", "-", "=", "<", "not", "length", "cons", "car", "cdr", "append", "list",
     "null?", "apply", "eval", "load", "call/cc"}

\* number of positional parameters of each standard procedure; -1: any number
native_arity(name) ==
    CASE name \in {"+", "-", "=", "<", "cons", "append", "apply"} -> 2
      [] name \in {"not", "length", "car", "cdr", "null?", "eval", "load", "call/cc"} -> 1
      [] OTHER -> -1

\* files the loader can open: name -> the forms read() returns from it
Files ==
    ("f.scm" :> << List(<<Sym("g"), Num(42)>>), List(<<_set, Sym("after"), Num(1)>>) >>)

\* load's file name: '.scm' is appended unless the name ends with it
scm_name(filename) ==
    IF filename \in DOMAIN Files THEN filename ELSE filename \o ".scm"

\* throw(retval) of the callcc call whose ball is b
throw(b, args, st) ==
    IF Len(args) # 1 THEN Raise(st, TypeError("throw() takes 1 positional argument"))
    ELSE Raise(log([st EXCEPT !.balls[b] = args[1]], EvThrow(b, args[1])), RuntimeWarning(b))

\* callcc(proc), called while d eval invocations are active
callcc(proc, st, d) ==
    LET b == Len(st.balls) + 1
        s1 == log([st EXCEPT !.balls = Append(@, None)], EvCallcc(b))
        r == py_call(proc, <<[tag |-> "throw", ball |-> b]>>, s1, d)
    IN IF r.exc.exc = "RuntimeWarning"
       THEN IF r.exc.ball = b
            THEN Ret(log(r.st, EvCatch(b, r.st.balls[b])), r.st.balls[b])
            ELSE Raise(log(r.st, EvReraise(b, r.exc.ball)), r.exc)
       ELSE IF ok(r) THEN Ret(log(r.st, EvReturn(b)), r.val)
       ELSE r

\* load(filename): repl(None, InPort(open(filename)), None)
load(filename, st, d) ==
    IF filename.tag # "str" THEN Raise(st, TypeError("filename is not a str"))
    ELSE IF scm_name(filename.str) \notin DOMAIN Files
    THEN Raise(st, OSError(scm_name(filename.str)))
    ELSE py_repl(Files[scm_name(filename.str)], st, d)

\* proc(*args) for a standard procedure
native(name, args, st, d) ==
    IF native_arity(name) >= 0 /\ Len(args) # native_arity(name)
    THEN Raise(st, TypeError("wrong number of positional arguments"))
    ELSE CASE name = "+" -> op_add(args[1], args[2], st)
           [] name = "append" -> op_add(args[1], args[2], st)
           [] name = "-" ->
                IF isnum(args[1]) /\ isnum(args[2])
                THEN Ret(st, Num(numval(args[1]) - numval(args[2])))
                ELSE Raise(st, TypeError("unsupported operand type(s) for -"))
           [] name = "=" -> Ret(st, Bool(py_eq(args[1], args[2])))
           [] name = "<" ->
                IF isnum(args[1]) /\ isnum(args[2])
                THEN Ret(st, Bool(numval(args[1]) < numval(args[2])))
                ELSE Raise(st, TypeError("'<' not supported"))
           [] name = "not" -> Ret(st, Bool(~truthy(args[1])))
           [] name = "length" ->
                IF isa_list(args[1]) THEN Ret(st, Num(Len(args[1].list)))
                ELSE Raise(st, TypeError("object has no len()"))
           [] name = "cons" ->
                IF isa_list(args[2]) THEN Ret(st, cons(args[1], args[2]))
                ELSE Raise(st, TypeError("can only concatenate list to list"))
           [] name = "car" ->
                IF ~isa_list(args[1]) THEN Raise(st, TypeError("object is not subscriptable"))
                ELSE IF args[1].list = <<>> THEN Raise(st, IndexError("list index out of range"))
                ELSE Ret(st, args[1].list[1])
           [] name = "cdr" ->
                IF ~isa_list(args[1]) THEN Raise(st, TypeError("object is not subscriptable"))
                ELSE Ret(st, List(SubSeq(args[1].list, 2, Len(args[1].list))))
           [] name = "list" -> Ret(st, List(args))
           [] name = "null?" -> Ret(st, Bool(args[1] = List(<<>>)))
           [] name = "apply" ->
                IF isa_list(args[2]) THEN py_call(args[1], args[2].list, st, d)
                ELSE Raise(st, TypeError("argument after * must be an iterable"))
           [] name = "eval" ->
                LET e == py_expand(args[1], FALSE, st, d)
                IN IF e.exc = NoExc THEN py_eval(e.val, global_env, e.st, d + 1) ELSE e
           [] name = "load" -> load(args[1], st, d)
           [] name = "call/cc" -> callcc(args[1], st, d)
           [] name = "let" -> py_let(args, st, d)
           [] OTHER -> Raise(st, TypeError("not modelled"))

\* Procedure.__call__ and the call of any other object, while d eval invocations
\* are active
call(proc, args, st, d) ==
    CASE proc.tag = "proc" ->
           LET e == Env(proc.parms, args, proc.env, st)
           IN IF e.exc # NoExc THEN Raise(e.st, e.exc)
              ELSE py_eval(proc.exp, e.env, e.st, d + 1)
      [] proc.tag = "native" -> native(proc.name, args, st, d)
      [] proc.tag = "throw" -> throw(proc.ball, args, st)
      [] OTHER -> Raise(st, TypeError("object is not callable"))

callable(v) == v.tag \in {"proc", "native", "throw"}

\* add_globals(Env())
add_globals == [storage |-> [n \in NativeNames |-> Native(n)], outer |-> 0]

(***************************************************************************)
(* eval(x, env): the trampolined evaluator.  d is the number of active     *)
(* eval invocations, this one included.  A form either returns, raises, or *)
(* assigns x and env and lets the while loop go on (Loop); a use of eval   *)
(* with d + 1 is a nested call of eval.                                    *)
(***************************************************************************)
\* x = ...; env = ...: the next iteration of the while loop
Looping == [exc |-> "loop"]
Loop(st, x, env) == [st |-> st, val |-> None, exc |-> Looping, x |-> x, env |-> env]

\* [eval(exp, env) for exp in xs], each a call of eval at depth d: vals are the
\* values so far, r is the outcome of the expression just evaluated, and xs are
\* the expressions still to be evaluated
RECURSIVE eval_rest(_, _, _, _, _)
eval_rest(vals, r, xs, env, d) ==
    CASE r.exc # NoExc -> r
      [] r.exc = NoExc /\ xs = <<>> -> Ret(r.st, List(Append(vals, r.val)))
      [] OTHER -> eval_rest(Append(vals, r.val), py_eval(xs[1], env, r.st, d), Tail(xs), env, d)

eval_each(xs, env, st, d) ==
    IF xs = <<>> THEN Ret(st, List(<<>>))
    ELSE eval_rest(<<>>, py_eval(xs[1], env, st, d), Tail(xs), env, d)

\* variable reference: env.find(str(x)).storage[str(x)]
eval_symbol(x, env, st, d) ==
    LET e == find(str(x), env, st)
    IN IF e = 0 THEN Raise(st, LookupError(str(x)))
       ELSE Ret(st, st.envs[e].storage[str(x)])

\* (quote exp)
eval_quote(x, env, st, d) ==
    IF Len(x.list) # 2 THEN Raise(st, ValueError("unpack (_, exp)"))
    ELSE Ret(st, x.list[2])

\* (if test conseq alt)
eval_if(x, env, st, d) ==
    IF Len(x.list) # 4 THEN Raise(st, ValueError("unpack (_, test, conseq, alt)"))
    ELSE LET t == py_eval(x.list[2], env, st, d + 1)
         IN IF t.exc # NoExc THEN t
            ELSE Loop(t.st, IF truthy(t.val) THEN x.list[3] ELSE x.list[4], env)

\* (cond (test code)...): the for loop over the clauses, from clause x.list[i] on
RECURSIVE eval_cond(_, _, _, _, _)
eval_cond(i, x, env, st, d) ==
    CASE i > Len(x.list) ->
           Loop(st, x, env)    \* no break: x is unchanged and the while loop goes on
      [] i <= Len(x.list) /\ ~isa_list(x.list[i]) ->
           Raise(st, TypeError("clause is not subscriptable"))
      [] i <= Len(x.list) /\ x.list[i] = List(<<>>) ->
           Raise(st, IndexError("list index out of range"))
      [] OTHER ->
           LET clause == x.list[i].list
               t == py_eval(clause[1], env, st, d + 1)
           IN CASE t.exc # NoExc -> t
                [] t.exc = NoExc /\ ~truthy(t.val) -> eval_cond(i + 1, x, env, t.st, d)
                [] OTHER ->
                     LET b == eval_each(SubSeq(clause, 2, Len(clause) - 1), env, t.st, d + 1)
                     IN IF b.exc # NoExc THEN b ELSE Loop(b.st, clause[Len(clause)], env)

\* a faulty variant of eval_set: the value is stored in env itself
eval_set_local(x, env, st, d) ==
    IF Len(x.list) # 3 THEN Raise(st, ValueError("unpack (_, var, exp)"))
    ELSE LET v == py_eval(x.list[3], env, st, d + 1)
             e == find(str(x.list[2]), env, v.st)
         IN IF v.exc # NoExc THEN v
            ELSE IF e = 0 THEN Raise(v.st, LookupError(str(x.list[2])))
            ELSE Ret([v.st EXCEPT !.envs[env].storage = (str(x.list[2]) :> v.val) @@ @], None)

\* (set! var exp): the value is computed first, then the target env.find(var)
eval_set(x, env, st, d) ==
    IF Len(x.list) # 3 THEN Raise(st, ValueError("unpack (_, var, exp)"))
    ELSE LET v == py_eval(x.list[3], env, st, d + 1)
             e == find(str(x.list[2]), env, v.st)
         IN IF v.exc # NoExc THEN v
            ELSE IF e = 0 THEN Raise(v.st, LookupError(str(x.list[2])))
            ELSE Ret([v.st EXCEPT !.envs[e].storage = (str(x.list[2]) :> v.val) @@ @], None)

\* (define var exp)
eval_define(x, env, st, d) ==
    IF Len(x.list) # 3 THEN Raise(st, ValueError("unpack (_, var, exp)"))
    ELSE LET v == py_eval(x.list[3], env, st, d + 1)
         IN IF v.exc # NoExc THEN v
            ELSE Ret([v.st EXCEPT !.envs[env].storage = (str(x.list[2]) :> v.val) @@ @], None)

\* (lambda (var*) exp)
eval_lambda(x, env, st, d) ==
    IF Len(x.list) # 3 THEN Raise(st, ValueError("unpack (_, vars, exp)"))
    ELSE Ret(st, Procedure(x.list[2], x.list[3], env))

\* (begin exp+)
eval_begin(x, env, st, d) ==
    LET b == eval_each(SubSeq(x.list, 2, Len(x.list) - 1), env, st, d + 1)
    IN IF b.exc # NoExc THEN b
       ELSE Loop(b.st, x.list[Len(x.list)], env)

\* a faulty variant of eval_application: a closure is called, the loop not continued
eval_application_nested(x, env, st, d) ==
    LET a == eval_each(x.list, env, st, d + 1)
    IN IF a.exc # NoExc THEN a
       ELSE py_call(a.val.list[1], Tail(a.val.list), a.st, d)

\* (proc exp*)
eval_application(x, env, st, d) ==
    LET a == eval_each(x.list, env, st, d + 1)
    IN IF a.exc # NoExc THEN a
       ELSE LET proc == a.val.list[1]
                exps == Tail(a.val.list)
            IN IF proc.tag = "proc"
               THEN LET e == Env(proc.parms, exps, proc.env, a.st)
                    IN IF e.exc # NoExc THEN Raise(e.st, e.exc)
                       ELSE Loop(e.st, proc.exp, e.env)
               ELSE py_call(proc, exps, a.st, d)

\* the body of the while loop, for the form x
eval_form(x, env, st, d) ==
    CASE isa_Symbol(x) -> eval_symbol(x, env, st, d)
      [] ~isa_Symbol(x) /\ ~isa_list(x) -> Ret(st, x)
      [] x = List(<<>>) -> Raise(st, IndexError("list index out of range"))
      [] head(x) = _quote -> eval_quote(x, env, st, d)
      [] head(x) = _if -> eval_if(x, env, st, d)
      [] head(x) = _cond -> eval_cond(2, x, env, st, d)
      [] head(x) = _set -> eval_set(x, env, st, d)
      [] head(x) = _define -> eval_define(x, env, st, d)
      [] head(x) = _lambda -> eval_lambda(x, env, st, d)
      [] head(x) = _begin -> eval_begin(x, env, st, d)
      [] OTHER -> eval_application(x, env, st, d)

\* one iteration of the while loop, recorded in the history
eval_step(x, env, st, d) == eval_form(x, env, log(st, EvEval(d, x, env)), d)

\* while True: k iterations have been made, and the last ended as r
RECURSIVE eval_loop(_, _, _)
eval_loop(r, d, k) ==
    CASE r.exc # Looping -> r
      [] r.exc = Looping /\ k >= MaxSteps -> Raise(r.st, Running)
      [] OTHER -> eval_loop(eval_step(r.x, r.env, r.st, d), d, k + 1)

eval(x, env, st, d) == eval_loop(eval_step(x, env, st, d), d, 1)

(***************************************************************************)
(* expand, expand_quasiquote, let                                          *)
(***************************************************************************)
\* [expand(xi, toplevel) for xi in xs]: vals are the forms so far, r is the
\* outcome of the form just expanded, and xs are the forms still to be expanded
RECURSIVE expand_rest(_, _, _, _, _)
expand_rest(vals, r, xs, toplevel, d) ==
    CASE r.exc # NoExc -> r
      [] r.exc = NoExc /\ xs = <<>> -> Ret(r.st, List(Append(vals, r.val)))
      [] OTHER -> expand_rest(Append(vals, r.val), py_expand(xs[1], toplevel, r.st, d),
                              Tail(xs), toplevel, d)

expand_each(xs, toplevel, st, d) ==
    IF xs = <<>> THEN Ret(st, List(<<>>))
    ELSE expand_rest(<<>>, py_expand(xs[1], toplevel, st, d), Tail(xs), toplevel, d)

\* list(map(expand, x))
expand_map(x, st, d) == expand_each(x.list, FALSE, st, d)

RECURSIVE expand_quasiquote(_, _)
\* a faulty variant of expand_quasiquote: a spliced list is added as one element
expand_quasiquote_splice_as_cons(x, st) ==
    CASE ~is_pair(x) -> Ret(st, List(<<_quote, x>>))
      [] head(x) = _unquotesplicing -> Raise(st, SyntaxError(x, "can't splice here"))
      [] head(x) = _unquote ->
           IF Len(x.list) # 2 THEN Raise(st, SyntaxError(x, "wrong length"))
           ELSE Ret(st, x.list[2])
      [] is_pair(head(x)) /\ head(head(x)) = _unquotesplicing ->
           IF Len(x.list[1].list) # 2 THEN Raise(st, SyntaxError(x.list[1], "wrong length"))
           ELSE LET r == expand_quasiquote(List(Tail(x.list)), st)
                IN IF r.exc # NoExc THEN r
                   ELSE Ret(st, List(<<_cons, x.list[1].list[2], r.val>>))
      [] OTHER ->
           LET h == expand_quasiquote(x.list[1], st)
               t == expand_quasiquote(List(Tail(x.list)), st)
           IN CASE h.exc # NoExc -> h
                [] h.exc = NoExc /\ t.exc # NoExc -> t
                [] OTHER -> Ret(st, List(<<_cons, h.val, t.val>>))

expand_quasiquote(x, st) ==
    CASE ~is_pair(x) -> Ret(st, List(<<_quote, x>>))
      [] head(x) = _unquotesplicing -> Raise(st, SyntaxError(x, "can't splice here"))
      [] head(x) = _unquote ->
           IF Len(x.list) # 2 THEN Raise(st, SyntaxError(x, "wrong length"))
           ELSE Ret(st, x.list[2])
      [] is_pair(head(x)) /\ head(head(x)) = _unquotesplicing ->
           IF Len(x.list[1].list) # 2 THEN Raise(st, SyntaxError(x.list[1], "wrong length"))
           ELSE LET r == expand_quasiquote(List(Tail(x.list)), st)
                IN IF r.exc # NoExc THEN r
                   ELSE Ret(st, List(<<_append, x.list[1].list[2], r.val>>))
      [] OTHER ->
           LET h == expand_quasiquote(x.list[1], st)
               t == expand_quasiquote(List(Tail(x.list)), st)
           IN CASE h.exc # NoExc -> h
                [] h.exc = NoExc /\ t.exc # NoExc -> t
                [] OTHER -> Ret(st, List(<<_cons, h.val, t.val>>))

\* the let macro: let(*args)
let(args, st, d) ==
    LET x == cons(_let, List(args))
    IN IF ~(Len(args) > 1) THEN Raise(st, SyntaxError(x, "wrong length"))
       ELSE LET bindings == args[1]
                body == Tail(args)
            IN IF ~isa_list(bindings) THEN Raise(st, TypeError("bindings is not iterable"))
               ELSE IF ~(\A i \in 1..Len(bindings.list) :
                            /\ isa_list(bindings.list[i])
                            /\ Len(bindings.list[i].list) = 2
                            /\ isa_Symbol(bindings.list[i].list[1]))
               THEN Raise(st, SyntaxError(x, "illegal binding list"))
               ELSE IF bindings.list = <<>>
               THEN Raise(st, ValueError("unpack vars, vals = zip()"))
               ELSE LET vars == [i \in 1..Len(bindings.list) |-> bindings.list[i].list[1]]
                        vals == [i \in 1..Len(bindings.list) |-> bindings.list[i].list[2]]
                        b == expand_each(body, FALSE, st, d)
                        v == expand_each(vals, FALSE, b.st, d)
                    IN IF b.exc # NoExc THEN b
                       ELSE IF v.exc # NoExc THEN v
                       ELSE Ret(v.st, List(<<List(<<_lambda, List(vars)>> \o b.val.list)>>
                                           \o v.val.list))

\* (quote exp)
expand_quote(x, toplevel, st, d) ==
    IF Len(x.list) # 2 THEN Raise(st, SyntaxError(x, "wrong length")) ELSE Ret(st, x)

\* (if t c) => (if t c None); (if t c a)
expand_if(x, toplevel, st, d) ==
    LET x1 == IF Len(x.list) = 3 THEN List(x.list \o <<None>>) ELSE x
    IN IF Len(x1.list) # 4 THEN Raise(st, SyntaxError(x1, "wrong length"))
       ELSE expand_map(x1, st, d)

\* (cond (test code)...); len(clause) is taken of lists only
expand_cond(x, toplevel, st, d) ==
    IF ~(Len(x.list) > 1) THEN Raise(st, SyntaxError(x, "wrong length"))
    ELSE IF \E i \in 2..Len(x.list) : ~isa_list(x.list[i])
    THEN Raise(st, TypeError("object has no len()"))
    ELSE IF \E i \in 2..Len(x.list) : ~(Len(x.list[i].list) >= 2)
    THEN Raise(st, SyntaxError(x.list[CHOOSE i \in 2..Len(x.list) :
                                         /\ ~(Len(x.list[i].list) >= 2)
                                         /\ \A j \in 2..(i - 1) : Len(x.list[j].list) >= 2],
                               "wrong length"))
    ELSE expand_map(x, st, d)

\* (set! var exp)
expand_set(x, toplevel, st, d) ==
    IF Len(x.list) # 3 THEN Raise(st, SyntaxError(x, "wrong length"))
    ELSE IF ~isa_Symbol(x.list[2]) THEN Raise(st, SyntaxError(x, "can set! only a symbol"))
    ELSE LET e == py_expand(x.list[3], FALSE, st, d)
         IN IF e.exc # NoExc THEN e ELSE Ret(e.st, List(<<_set, x.list[2], e.val>>))

\* a faulty variant of expand_define: define-macro accepted wherever it stands
expand_define_any_level(x, toplevel, st, d) ==
    IF ~(Len(x.list) >= 3) THEN Raise(st, SyntaxError(x, "wrong length"))
    ELSE LET def == x.list[1]
             v == x.list[2]
             body == SubSeq(x.list, 3, Len(x.list))
         IN IF isa_list(v) /\ v.list # <<>>
            THEN py_expand(List(<<def, v.list[1], List(<<_lambda, List(Tail(v.list))>> \o body)>>),
                        FALSE, st, d)
            ELSE IF Len(x.list) # 3 THEN Raise(st, SyntaxError(x, "wrong length"))
            ELSE IF ~isa_Symbol(v) THEN Raise(st, SyntaxError(x, "can define only a symbol"))
            ELSE LET e == py_expand(x.list[3], FALSE, st, d)
                 IN IF e.exc # NoExc THEN e
                    ELSE IF def = _definemacro
                    THEN LET proc == py_eval(e.val, global_env, e.st, d + 1)
                         IN IF proc.exc # NoExc THEN proc
                            ELSE IF ~callable(proc.val)
                            THEN Raise(proc.st, SyntaxError(x, "macro must be a procedure"))
                            ELSE Ret([proc.st EXCEPT !.macro_table =
                                          (str(v) :> proc.val) @@ @], None)
                    ELSE Ret(e.st, List(<<_define, v, e.val>>))

\* (define var exp), (define (f args) body), and the same with define-macro
expand_define(x, toplevel, st, d) ==
    IF ~(Len(x.list) >= 3) THEN Raise(st, SyntaxError(x, "wrong length"))
    ELSE LET def == x.list[1]
             v == x.list[2]
             body == SubSeq(x.list, 3, Len(x.list))
         IN IF isa_list(v) /\ v.list # <<>>
            THEN py_expand(List(<<def, v.list[1], List(<<_lambda, List(Tail(v.list))>> \o body)>>),
                        FALSE, st, d)
            ELSE IF Len(x.list) # 3 THEN Raise(st, SyntaxError(x, "wrong length"))
            ELSE IF ~isa_Symbol(v) THEN Raise(st, SyntaxError(x, "can define only a symbol"))
            ELSE LET e == py_expand(x.list[3], FALSE, st, d)
                 IN IF e.exc # NoExc THEN e
                    ELSE IF def = _definemacro
                    THEN IF ~toplevel
                         THEN Raise(e.st, SyntaxError(x, "define-macro only allowed at top level"))
                         ELSE LET proc == py_eval(e.val, global_env, e.st, d + 1)
                              IN IF proc.exc # NoExc THEN proc
                                 ELSE IF ~callable(proc.val)
                                 THEN Raise(proc.st, SyntaxError(x, "macro must be a procedure"))
                                 ELSE Ret([proc.st EXCEPT !.macro_table =
                                               (str(v) :> proc.val) @@ @], None)
                    ELSE Ret(e.st, List(<<_define, v, e.val>>))

\* (begin) => None; (begin e*) with the top-level flag handed on
expand_begin(x, toplevel, st, d) ==
    IF Len(x.list) = 1 THEN Ret(st, None)
    ELSE expand_each(x.list, toplevel, st, d)

\* (lambda (x) e1 e2) => (lambda (x) (begin e1 e2))
expand_lambda(x, toplevel, st, d) ==
    IF ~(Len(x.list) >= 3) THEN Raise(st, SyntaxError(x, "wrong length"))
    ELSE LET vars == x.list[2]
             body == SubSeq(x.list, 3, Len(x.list))
         IN IF ~(\/ isa_list(vars) /\ \A i \in 1..Len(vars.list) : isa_Symbol(vars.list[i])
                 \/ isa_Symbol(vars))
            THEN Raise(st, SyntaxError(x, "illegal lambda argument list"))
            ELSE LET exp == IF Len(body) = 1 THEN body[1] ELSE List(<<_begin>> \o body)
                     e == py_expand(exp, FALSE, st, d)
                 IN IF e.exc # NoExc THEN e ELSE Ret(e.st, List(<<_lambda, vars, e.val>>))

\* (quasiquote x)
expand_quasi(x, toplevel, st, d) ==
    IF Len(x.list) # 2 THEN Raise(st, SyntaxError(x, "wrong length"))
    ELSE expand_quasiquote(x.list[2], st)

\* a faulty variant of expand_macro_use: the macro's result is not expanded
expand_macro_use_once(x, toplevel, st, d) ==
    py_call(st.macro_table[str(x.list[1])], Tail(x.list), st, d)

\* (m arg...) for a macro m: the macro's result is expanded in turn
expand_macro_use(x, toplevel, st, d) ==
    LET m == py_call(st.macro_table[str(x.list[1])], Tail(x.list), st, d)
    IN IF m.exc # NoExc THEN m ELSE py_expand(m.val, toplevel, m.st, d)

expand(x, toplevel, st, d) ==
    CASE x = List(<<>>) -> Raise(st, SyntaxError(x, "Empty list can't be expanded"))
      [] ~isa_list(x) -> Ret(st, x)
      [] head(x) = _quote -> expand_quote(x, toplevel, st, d)
      [] head(x) = _if -> expand_if(x, toplevel, st, d)
      [] head(x) = _cond -> expand_cond(x, toplevel, st, d)
      [] head(x) = _set -> expand_set(x, toplevel, st, d)
      [] head(x) \in {_define, _definemacro} -> expand_define(x, toplevel, st, d)
      [] head(x) = _begin -> expand_begin(x, toplevel, st, d)
      [] head(x) = _lambda -> expand_lambda(x, toplevel, st, d)
      [] head(x) = _quasiquote -> expand_quasi(x, toplevel, st, d)
      [] OTHER ->
           IF isa_Symbol(head(x)) /\ str(head(x)) \in DOMAIN st.macro_table
           THEN expand_macro_use(x, toplevel, st, d)
           ELSE expand_map(x, st, d)

(***************************************************************************)
(* repl(None, inport, None), as load runs it, over the forms of the port:  *)
(* every exception of a form is caught and printed, and the loop goes on.  *)
(***************************************************************************)
repl(forms, st, d) ==
    IF forms = <<>> THEN Ret(st, None)
    ELSE LET p == py_expand(forms[1], TRUE, st, d)
             v == IF p.exc = NoExc THEN py_eval(p.val, global_env, p.st, d + 1) ELSE p
         IN IF v.exc = Running THEN v ELSE py_repl(Tail(forms), v.st, d)

py(f, a, st, d) ==
    CASE f = "eval" -> eval(a[1], a[2], st, d)
      [] f = "expand" -> expand(a[1], a[2], st, d)
      [] f = "call" -> call(a[1], a[2], st, d)
      [] f = "repl" -> repl(a[1], st, d)
      [] f = "let" -> let(a[1], st, d)

(***************************************************************************)
(* Construction: global_env = add_globals(Env()), macro_table = {let},     *)
(* then eval(parse(...)) of the core builtins (and, or, when, unless).     *)
(***************************************************************************)
\* `x and ,x and ,@x as the reader returns them
QQ(x) == List(<<_quasiquote, x>>)
UQ(x) == List(<<_unquote, x>>)
UQS(x) == List(<<_unquotesplicing, x>>)
App1(f, a) == List(<<Sym(f), a>>)
App2(f, a, b) == List(<<Sym(f), a, b>>)
If3(t, c, a) == List(<<_if, t, c, a>>)
Lambda(parms, body) == List(<<_lambda, parms, body>>)
Args == Sym("args")

core_builtins ==
    List(<<_begin,
      List(<<_definemacro, Sym("and"), Lambda(Args,
        If3(App1("null?", Args), Bool(TRUE),
            If3(App2("=", App1("length", Args), Num(1)), App1("car", Args),
                QQ(If3(UQ(App1("car", Args)),
                       List(<<Sym("and"), UQS(App1("cdr", Args))>>),
                       Bool(FALSE))))))>>),
      List(<<_definemacro, Sym("or"), Lambda(Args,
        If3(App1("null?", Args), Bool(FALSE),
            If3(App2("=", App1("length", Args), Num(1)), App1("car", Args),
                QQ(If3(App1("not", UQ(App1("car", Args))),
                       List(<<Sym("or"), UQS(App1("cdr", Args))>>),
                       Bool(TRUE))))))>>),
      List(<<_definemacro, Sym("when"), Lambda(Args,
        QQ(List(<<_if, UQ(App1("car", Args)),
                  List(<<_begin, UQS(App1("cdr", Args))>>)>>)))>>),
      List(<<_definemacro, Sym("unless"), Lambda(Args,
        QQ(List(<<_if, App1("not", UQ(App1("car", Args))),
                  List(<<_begin, UQS(App1("cdr", Args))>>)>>)))>>)
    >>)

\* the state before the core builtins are evaluated
store0 ==
    [envs |-> <<add_globals>>,
     macro_table |-> ("let" :> Native("let")),
     balls |-> <<>>,
     trace |-> <<>>]

\* history cleared: a new top-level call starts
fresh(st) == [st EXCEPT !.trace = <<>>]

\* parse(inport): expand(read(inport), toplevel=True)
parse(form, st) == py_expand(form, TRUE, st, 0)

\* the state when the module has been loaded
eval_parsed(p) == py_eval(p.val, global_env, p.st, 1)
boot == fresh(eval_parsed(parse(core_builtins, store0)).st)

(***************************************************************************)
(* Scenarios: what is read, and the environment it is evaluated in.        *)
(*   kind     the family of the scenario                                   *)
(*   shape    the variant within the family                                *)
(*   src      the form read() returns                                      *)
(*   form     the subform the scenario is about                            *)
(*   globals  names defined in global_env beforehand                       *)
(*   chain    environments created beforehand, each inside the previous    *)
(*   env      the environment handed to eval                               *)
(*   args, n  values and size the scenario is built from                   *)
(***************************************************************************)
Scn(kind, shape, src, form, globals, chain, env, args, n) ==
    [kind |-> kind, shape |-> shape, src |-> src, form |-> form, globals |-> globals,
     chain |-> chain, env |-> env, args |-> args, n |-> n]

\* a program given to the read-eval-print loop
Program(kind, shape, src, form, args, n) ==
    Scn(kind, shape, src, form, <<>>, <<>>, global_env, args, n)

SeqsUpTo(S, n) == UNION {[1..k -> S] : k \in 0..n}

\* (f a1 ... an) and (begin e1 ... en)
Call(f, as) == List(<<f>> \o as)
Begin(es) == List(<<_begin>> \o es)
Define(name, e) == List(<<_define, Sym(name), e>>)
Set(name, e) == List(<<_set, Sym(name), e>>)
Quote(e) == List(<<_quote, e>>)
\* the i-th parameter name: p1, p2, ...
Parm(i) == Sym("p" \o ToString(i))
Parms(n) == [i \in 1..n |-> Parm(i)]
Nums(n) == [i \in 1..n |-> Num(i)]

\* (define name value) at top level, for each of globals
RECURSIVE define_globals(_, _)
define_globals(globals, st) ==
    IF globals = <<>> THEN st
    ELSE define_globals(Tail(globals),
             [st EXCEPT !.envs[global_env].storage =
                            (globals[1].name :> globals[1].value) @@ @])

\* Env(parms, args, outer) for each of chain, the outer being the one before
RECURSIVE build_chain(_, _)
build_chain(chain, st) ==
    IF chain = <<>> THEN st
    ELSE build_chain(Tail(chain), Env(chain[1].parms, chain[1].args, Len(st.envs), st).st)

\* Environment scenarios: global_env and up to MaxChain nested environments, each
\* binding x (to 10 times its number) or not; x is looked up, defined or set in one
EnvForm(what) ==
    CASE what = "lookup" -> Sym("x")
      [] what = "define" -> Define("x", Num(5))
      [] what = "set" -> Set("x", Num(5))

EnvScenarios ==
    UNION { { Scn(what, "chain", EnvForm(what), Sym("x"),
                  IF binds[1] THEN <<[name |-> "x", value |-> Num(10)]>> ELSE <<>>,
                  [k \in 1..len |->
                      IF binds[k + 1]
                      THEN [parms |-> List(<<Sym("x"), Sym("y")>>),
                            args |-> <<Num(10 * (k + 1)), Num(0)>>]
                      ELSE [parms |-> List(<<Sym("y")>>), args |-> <<Num(0)>>]],
                  e, <<Num(5)>>, len) :
                what \in {"lookup", "define", "set"},
                binds \in [1..(len + 1) -> BOOLEAN], e \in 1..(len + 1) } :
            len \in 0..MaxChain }

\* Lexical scope: a closure made where definer is bound to 1 is called where caller
\* is bound to 2, and returns x; x may also be a global
\*   ((lambda (definer) ((lambda (f) ((lambda (caller) (f)) 2)) (lambda () x))) 1)
LexicalProgram(definer, caller) ==
    Call(Lambda(List(<<Sym(definer)>>),
                Call(Lambda(List(<<Sym("f")>>),
                            Call(Lambda(List(<<Sym(caller)>>), Call(Sym("f"), <<>>)),
                                 <<Num(2)>>)),
                     <<Lambda(List(<<>>), Sym("x"))>>)),
         <<Num(1)>>)

LexicalScenarios ==
    { Scn("lexical", definer \o caller, LexicalProgram(definer, caller), Sym("x"),
          IF global THEN <<[name |-> "x", value |-> Num(10)]>> ELSE <<>>,
          <<>>, global_env,
          IF definer = "x" THEN <<Num(1)>> ELSE IF global THEN <<Num(10)>> ELSE <<>>, 0) :
        definer \in {"x", "y"}, caller \in {"x", "y"}, global \in BOOLEAN }

\* Scope of define and set! inside a closure, seen after the closure has returned:
\*   (begin (define x 1) (CLOSURE-CALL) x)
ScopeCall(shape) ==
    CASE shape = "define" -> Call(Lambda(List(<<>>), Define("x", Num(2))), <<>>)
      [] shape = "set" -> Call(Lambda(List(<<>>), Set("x", Num(2))), <<>>)
      [] shape = "set-nested" ->
           Call(Lambda(List(<<Sym("y")>>),
                       Call(Lambda(List(<<Sym("z")>>), Set("x", Num(2))), <<Num(0)>>)),
                <<Num(0)>>)
      [] shape = "set-shadowed" -> Call(Lambda(List(<<Sym("x")>>), Set("x", Num(2))), <<Num(5)>>)

ScopeScenarios ==
    { Program("scope", shape,
              Begin(<<Define("x", Num(1)), ScopeCall(shape), Sym("x")>>), ScopeCall(shape),
              <<IF shape \in {"set", "set-nested"} THEN Num(2) ELSE Num(1)>>, 0) :
        shape \in {"define", "set", "set-nested", "set-shadowed"} }

\* Tail calls: (begin (define loop (lambda (n) BODY)) (loop N)), where BODY calls
\* loop in tail position until n is 0
LoopCall == Call(Sym("loop"), <<App2("-", Sym("n"), Num(1))>>)
LoopShapes == {"if-alt", "if-conseq", "cond", "begin", "cond-begin"}
LoopBody(shape) ==
    CASE shape = "if-alt" -> If3(App2("=", Sym("n"), Num(0)), Num(0), LoopCall)
      [] shape = "if-conseq" -> If3(App2("<", Num(0), Sym("n")), LoopCall, Num(0))
      [] shape = "cond" ->
           List(<<_cond, List(<<App2("=", Sym("n"), Num(0)), Num(0)>>),
                         List(<<Bool(TRUE), LoopCall>>)>>)
      [] shape = "begin" ->
           If3(App2("=", Sym("n"), Num(0)), Num(0), Begin(<<Sym("n"), LoopCall>>))
      [] shape = "cond-begin" ->
           List(<<_cond, List(<<App2("=", Sym("n"), Num(0)), Num(0)>>),
                         List(<<Bool(TRUE), Sym("n"), LoopCall>>)>>)

LoopScenarios ==
    { Program("loop", shape,
              Begin(<<Define("loop", Lambda(List(<<Sym("n")>>), LoopBody(shape))),
                      Call(Sym("loop"), <<Num(N)>>)>>),
              LoopBody(shape), <<>>, N) :
        shape \in LoopShapes, N \in 0..MaxIter }

\* Arity: a closure of n parameters, or of the single parameter args, applied to
\* the m arguments 1 .. m, directly or through apply
ArityBody(n) == Call(Sym("list"), <<Num(0)>> \o Parms(n))
ArityApply(shape, f, m) ==
    IF shape = "direct" THEN Call(f, Nums(m))
    ELSE App2("apply", f, Call(Sym("list"), Nums(m)))

ArityScenarios ==
    { Program("arity", shape, ArityApply(shape, Lambda(List(Parms(n)), ArityBody(n)), m),
              ArityBody(n), Nums(m), n) :
        shape \in {"direct", "apply"}, n \in 0..MaxParams, m \in 0..MaxArgs }
    \cup
    { Program("variadic", shape, ArityApply(shape, Lambda(Sym("args"), Sym("args")), m),
              Sym("args"), Nums(m), 1) :
        shape \in {"direct", "apply"}, m \in 0..MaxArgs }

\* define-macro in a position: at top level inside n nested begins, or elsewhere
DefMacro(name, e) == List(<<_definemacro, Sym(name), e>>)

RECURSIVE Begins(_, _)
Begins(n, f) == IF n = 0 THEN f ELSE Begin(<<Begins(n - 1, f)>>)

MacroProcs == {Lambda(Sym("args"), Num(1)), Lambda(List(<<Sym("a")>>), Sym("a")), Sym("car")}
MacroNames == {"m", "and"}
InnerPositions == {"lambda", "lambda-begin", "if", "define", "argument"}
Position(shape, f) ==
    CASE shape = "lambda" -> Lambda(List(<<>>), f)
      [] shape = "lambda-begin" -> Lambda(List(<<>>), Begin(<<f>>))
      [] shape = "if" -> If3(Num(1), f, Num(2))
      [] shape = "define" -> Define("v", f)
      [] shape = "argument" -> Call(Sym("list"), <<f>>)

DefMacroScenarios ==
    { Program("defmacro", "toplevel", Begins(n, DefMacro(name, e)), e, <<Sym(name)>>, n) :
        name \in MacroNames, e \in MacroProcs, n \in 0..MaxBegin }
    \cup
    { Program("defmacro", shape, Position(shape, DefMacro(name, e)), e, <<Sym(name)>>, 0) :
        name \in MacroNames, e \in MacroProcs, shape \in InnerPositions }

\* and / or over n operands, whose values are vs:
\*   ((lambda (p1 ... pn) (and p1 ... pn)) v1 ... vn)
OperandValues == {Bool(FALSE), Num(0), List(<<>>), Num(1)}
Literal(v) == IF isa_list(v) THEN Quote(v) ELSE v
Literals(vs) == [i \in 1..Len(vs) |-> Literal(vs[i])]
AndOrScenarios ==
    { Program("andor", op,
              Call(Lambda(List(Parms(Len(vs))), Call(Sym(op), Parms(Len(vs)))), Literals(vs)),
              Call(Sym(op), Parms(Len(vs))), vs, Len(vs)) :
        op \in {"and", "or"}, vs \in SeqsUpTo(OperandValues, MaxOperands) }

\* cond whose tests are all falsy: (cond (t1 1) ... (tn n))
FalsyTests == {Bool(FALSE), Num(0), App2("<", Num(1), Num(0))}
CondForm(ts) == List(<<_cond>> \o [i \in 1..Len(ts) |-> List(<<ts[i], Num(i)>>)])
CondScenarios ==
    { Program("cond", "no-match", CondForm(ts), CondForm(ts), ts, Len(ts)) :
        ts \in SeqsUpTo(FalsyTests, MaxClauses) \ {<<>>} }

\* call/cc: the escape procedure k, also kept in the global g, is invoked with 42
\* by THROWER, inside up to MaxNest pending forms:
\*   (begin (define g 0) (define after 0)
\*          (call/cc (lambda (k) (begin (set! g k) PENDING[... THROWER ...]))))
Throwers == {"direct", "global", "apply", "eval", "load"}
Thrower(shape) ==
    CASE shape = "direct" -> Call(Sym("k"), <<Num(42)>>)
      [] shape = "global" -> Call(Sym("g"), <<Num(42)>>)
      [] shape = "apply" -> App2("apply", Sym("k"), Call(Sym("list"), <<Num(42)>>))
      [] shape = "eval" -> App1("eval", Quote(Call(Sym("g"), <<Num(42)>>)))
      [] shape = "load" -> App1("load", Str("f"))

Pendings == {"plus", "begin", "if", "argument", "body", "apply", "callcc"}
Pending(w, f) ==
    CASE w = "plus" -> App2("+", Num(1), f)
      [] w = "begin" -> Begin(<<f, Set("after", Num(1))>>)
      [] w = "if" -> If3(f, Num(1), Num(2))
      [] w = "argument" -> Call(Lambda(List(<<Sym("y")>>), Sym("y")), <<f>>)
      [] w = "body" -> Call(Lambda(List(<<>>), f), <<>>)
      [] w = "apply" -> App2("apply", Lambda(List(<<>>), f), Call(Sym("list"), <<>>))
      [] w = "callcc" -> App1("call/cc", Lambda(List(<<Sym("k2")>>), f))

RECURSIVE PendingAll(_, _)
PendingAll(ws, f) == IF ws = <<>> THEN f ELSE Pending(ws[1], PendingAll(Tail(ws), f))

CallccScenarios ==
    { Program("callcc", t,
              Begin(<<Define("g", Num(0)), Define("after", Num(0)),
                      App1("call/cc",
                           Lambda(List(<<Sym("k")>>),
                                  Begin(<<Set("g", Sym("k")), PendingAll(ws, Thrower(t))>>)))>>),
              Thrower(t), <<Num(42)>>, Len(ws)) :
        t \in Throwers, ws \in SeqsUpTo(Pendings, MaxNest) }

\* quasiquote: ((lambda (b c) (quasiquote TEMPLATE)) (quote (7 8)) (quote (8 9)))
TemplateElements == {Num(1), Sym("b"), _unquote, UQ(Sym("b")), UQS(Sym("c"))}
Templates ==
    {Num(1), Sym("b")}
    \cup { List(t) : t \in SeqsUpTo(TemplateElements, MaxTemplateLen) }
    \cup { List(<<Sym("b"), List(t)>>) : t \in SeqsUpTo(TemplateElements, MaxTemplateLen - 1) }

QuasiScenarios ==
    { Program("quasi", "template",
              Call(Lambda(List(<<Sym("b"), Sym("c")>>), QQ(t)),
                   <<Quote(List(<<Num(7), Num(8)>>)), Quote(List(<<Num(8), Num(9)>>))>>),
              t, <<List(<<Num(7), Num(8)>>), List(<<Num(8), Num(9)>>)>>, 0) :
        t \in Templates }

\* expand: a special form, a macro use or an application, written in a position
ExpandForms ==
    { List(<<_if, Num(1), Num(2)>>), If3(Num(1), Num(2), Num(3)),
      Set("a", Num(1)), Define("a", Num(1)),
      List(<<_define, List(<<Sym("f"), Sym("a")>>), Sym("a")>>),
      Lambda(List(<<Sym("a")>>), Sym("a")),
      List(<<_lambda, List(<<Sym("a")>>), Sym("a"), Sym("a")>>),
      App2("and", Num(1), Num(2)), App2("or", Num(1), Num(2)), App2("when", Num(1), Num(2)),
      List(<<_let, List(<<List(<<Sym("a"), Num(1)>>)>>), Sym("a")>>),
      Quote(Sym("a")), Begin(<<Num(1), Num(2)>>), CondForm(<<Num(1)>>),
      QQ(List(<<Num(1), UQ(Sym("a"))>>)), App2("list", Num(1), Num(2)) }
ExpandPositions ==
    {"toplevel", "begin", "lambda", "argument", "unquote", "unquote-element", "unquote-splicing"}
ExpandPosition(shape, f) ==
    CASE shape = "toplevel" -> f
      [] shape = "begin" -> Begin(<<f>>)
      [] shape = "lambda" -> Lambda(List(<<>>), f)
      [] shape = "argument" -> Call(Sym("list"), <<f>>)
      [] shape = "unquote" -> QQ(UQ(f))
      [] shape = "unquote-element" -> QQ(List(<<Num(1), UQ(f)>>))
      [] shape = "unquote-splicing" -> QQ(List(<<UQS(f)>>))

ExpandScenarios ==
    { Program("expand", shape, ExpandPosition(shape, f), f, <<>>, 0) :
        shape \in ExpandPositions, f \in ExpandForms }

Scenarios ==
    EnvScenarios \cup LexicalScenarios \cup ScopeScenarios \cup LoopScenarios
    \cup ArityScenarios \cup DefMacroScenarios \cup AndOrScenarios \cup CondScenarios
    \cup CallccScenarios \cup QuasiScenarios \cup ExpandScenarios

(***************************************************************************)
(* The state machine: a form is read, parsed (expanded at top level) and   *)
(* evaluated.                                                              *)
(***************************************************************************)
VARIABLES
    envs,           \* the Env objects; envs[1] is global_env
    macro_table,    \* the macro table
    balls,          \* the balls of the callcc calls made
    trace,          \* history of the last call of parse or eval
    scn,            \* the scenario
    x,              \* the form: as read, then as parse returned it
    val,            \* the value eval returned
    exc,            \* the exception the last call raised, or NoExc
    pc,             \* "read", "parsed", "error", "done", "running"
    pre             \* envs and macro_table before the last call

vars == <<envs, macro_table, balls, trace, scn, x, val, exc, pc, pre>>

store == [envs |-> envs, macro_table |-> macro_table, balls |-> balls, trace |-> <<>>]

\* the module is loaded and the scenario's environments exist: the form is read
Loaded(s0) ==
    /\ envs = s0.envs
    /\ macro_table = s0.macro_table
    /\ balls = s0.balls
    /\ pre = [envs |-> s0.envs, macro_table |-> s0.macro_table]
    /\ trace = <<>>
    /\ x = scn.src
    /\ val = None
    /\ exc = NoExc
    /\ pc = "read"

InitOf(S) ==
    /\ scn \in S
    /\ Loaded(build_chain(scn.chain, define_globals(scn.globals, boot)))

\* the call returned or raised as r
Outcome(r) ==
    /\ envs' = r.st.envs
    /\ macro_table' = r.st.macro_table
    /\ balls' = r.st.balls
    /\ trace' = r.st.trace
    /\ exc' = r.exc
    /\ pre' = [envs |-> envs, macro_table |-> macro_table]

Parsed(r) ==
    /\ Outcome(r)
    /\ x' = IF ok(r) THEN r.val ELSE x
    /\ pc' = IF ok(r) THEN "parsed" ELSE IF r.exc = Running THEN "running" ELSE "error"
    /\ UNCHANGED <<scn, val>>

Evaluated(r) ==
    /\ Outcome(r)
    /\ val' = r.val
    /\ pc' = IF r.exc = Running THEN "running" ELSE "done"
    /\ UNCHANGED <<scn, x>>

\* x = parse(inport)
Parse == pc = "read" /\ Parsed(parse(x, store))

\* val = eval(x, env)
Evaluate == pc = "parsed" /\ Evaluated(py_eval(x, scn.env, store, 1))

Next == Parse \/ Evaluate

Init == InitOf(Scenarios)
Spec == Init /\ [][Next]_vars

\* the same machine started on one family of scenarios
SpecEnv == InitOf(EnvScenarios \cup LexicalScenarios \cup ScopeScenarios) /\ [][Next]_vars
SpecLoop == InitOf(LoopScenarios) /\ [][Next]_vars
SpecArity == InitOf(ArityScenarios) /\ [][Next]_vars
SpecDefMacro == InitOf(DefMacroScenarios) /\ [][Next]_vars
SpecAndOr == InitOf(AndOrScenarios) /\ [][Next]_vars
SpecCond == InitOf(CondScenarios) /\ [][Next]_vars
SpecCallcc == InitOf(CallccScenarios) /\ [][Next]_vars
SpecQuasi == InitOf(QuasiScenarios) /\ [][Next]_vars
SpecExpand == InitOf(ExpandScenarios) /\ [][Next]_vars

(***************************************************************************)
(* Properties.  The history of the last call is trace; pre holds envs and  *)
(* macro_table as they were before it.                                     *)
(***************************************************************************)
\* the eval iterations of the history that dispatched the form f
EvalsOf(f) == SelectSeq(trace, LAMBDA e : e.ev = "eval" /\ e.x = f)
Max(S) == CHOOSE k \in S : \A j \in S : j <= k

\* C1: when the escape procedure of a call/cc call is invoked with 42 while the
\* call's proc is still executing, below any pending forms and through any
\* standard procedure (apply, eval, load), the call/cc call returns 42, no nested
\* call/cc catches the escape, and no pending form is executed (after stays 0)
EscapeReturnsToCallSite ==
    (scn.kind = "callcc" /\ pc \notin {"read", "parsed"}) =>
        /\ pc = "done"
        /\ exc = NoExc
        /\ val = Num(42)
        /\ envs[global_env].storage["after"] = Num(0)
        /\ \A i \in 1..Len(trace) : trace[i].ev = "catch" => trace[i].ball = 1

\* C2: a closure calling itself in tail position (branch of an if, last expression
\* of a cond clause or of a begin) for n iterations ends with its body dispatched
\* n + 1 times, all by the outermost eval invocation, and never more than 3 eval
\* invocations active, whatever n is
TailCallsBounded ==
    (scn.kind = "loop" /\ pc = "done") =>
        /\ exc = NoExc
        /\ val = Num(0)
        /\ Len(EvalsOf(scn.form)) = scn.n + 1
        /\ \A i \in 1..Len(trace) :
              trace[i].ev = "eval" =>
                  /\ trace[i].d <= 3
                  /\ trace[i].x = scn.form => trace[i].d = 1
TailCallsBoundedWitness ==
    /\ scn.kind = "loop"
    /\ pc = "done"
    /\ scn.n = MaxIter
    /\ Len(EvalsOf(scn.form)) = MaxIter + 1

\* the environments of the chain of scn.env that bind x before the call: the
\* chain of environment e is e, e - 1, ..., global_env
BindersOfX == {k \in 1..scn.env : "x" \in DOMAIN pre.envs[k].storage}

\* C3: (define x 5) in environment E changes the table of E alone; (set! x 5)
\* changes x in the nearest environment of E's chain that binds x and nothing
\* else, or raises LookupError and changes nothing when none binds x; a set! made
\* inside a closure is seen after the closure has returned, a define is not
DefineSetChangeOneTable ==
    /\ (scn.kind = "define" /\ pc = "done") =>
          /\ exc = NoExc
          /\ envs = [pre.envs EXCEPT ![scn.env].storage = ("x" :> Num(5)) @@ @]
    /\ (scn.kind = "set" /\ pc = "done") =>
          IF BindersOfX = {} THEN exc = LookupError("x") /\ envs = pre.envs
          ELSE /\ exc = NoExc
               /\ envs = [pre.envs EXCEPT ![Max(BindersOfX)].storage = ("x" :> Num(5)) @@ @]
    /\ (scn.kind = "scope" /\ pc = "done") =>
          /\ exc = NoExc
          /\ val = scn.args[1]
DefineSetChangeOneTableWitness ==
    /\ scn.kind = "set"
    /\ pc = "done"
    /\ scn.env = 3
    /\ BindersOfX = {1, 2}
    /\ envs[2].storage["x"] = Num(5)
    /\ envs[1].storage["x"] = Num(10)

\* C4: a symbol evaluates to the value of the innermost environment of the chain
\* that binds it (environment k of a chain binds x to 10 * k), and to LookupError
\* with the symbol's name, no environment changed, when none does; the chain of
\* a closure's application starts at the environment the closure was made in
SymbolLookup ==
    /\ (scn.kind = "lookup" /\ pc = "done") =>
          /\ envs = pre.envs
          /\ IF BindersOfX = {} THEN exc = LookupError("x")
             ELSE exc = NoExc /\ val = Num(10 * Max(BindersOfX))
    /\ (scn.kind = "lexical" /\ pc = "done") =>
          /\ SubSeq(envs, 1, Len(pre.envs)) = pre.envs
          /\ IF scn.args = <<>> THEN exc = LookupError("x")
             ELSE exc = NoExc /\ val = scn.args[1]
SymbolLookupWitness ==
    /\ scn.kind = "lookup"
    /\ pc = "done"
    /\ scn.env = 3
    /\ BindersOfX = {1, 2}
    /\ val = Num(20)

\* C5: a closure of n parameters applied to m arguments raises TypeError when
\* m # n, no environment created and the body not evaluated, and otherwise binds
\* each parameter to its argument; a closure whose parameters are one symbol
\* binds it to the list of all the arguments, for every m
ArityChecked ==
    /\ (scn.kind = "arity" /\ pc = "done") =>
          IF Len(scn.args) # scn.n
          THEN /\ exc = TypeError("expected parms, given args")
               /\ envs = pre.envs
               /\ EvalsOf(scn.form) = <<>>
          ELSE /\ exc = NoExc
               /\ val = List(<<Num(0)>> \o scn.args)
               /\ Len(envs) = Len(pre.envs) + 1
               /\ DOMAIN envs[Len(envs)].storage = {str(Parm(i)) : i \in 1..scn.n}
               /\ \A i \in 1..scn.n : envs[Len(envs)].storage[str(Parm(i))] = scn.args[i]
    /\ (scn.kind = "variadic" /\ pc = "done") =>
          /\ exc = NoExc
          /\ val = List(scn.args)
          /\ Len(envs) = Len(pre.envs) + 1
          /\ envs[Len(envs)].storage = ("args" :> List(scn.args))
ArityCheckedWitness ==
    /\ scn.kind = "arity"
    /\ pc = "done"
    /\ scn.n = 2
    /\ Len(scn.args) = 3
    /\ exc.exc = "TypeError"

\* a template operand that has no value: evaluating it raises
Undef == [tag |-> "undef"]
\* the value of a template operand where b and c are bound to scn.args
OperandValue(e) ==
    CASE e = Sym("b") -> scn.args[1]
      [] e = Sym("c") -> scn.args[2]
      [] e = Num(1) -> e
      [] OTHER -> Undef

\* the structure a template stands for, element by element from element i on:
\* (unquote e) is the value of e, (unquote-splicing e) the elements of the value
\* of e; when dotted, the symbol unquote before the last element e stands for the
\* elements of the value of e, and otherwise for itself
RECURSIVE Structure(_, _), StructureFrom(_, _, _)
Structure(t, dotted) ==
    CASE ~is_pair(t) -> t
      [] t = UQ(t.list[Len(t.list)]) -> OperandValue(t.list[2])
      [] OTHER -> StructureFrom(t.list, 1, dotted)
StructureFrom(es, i, dotted) ==
    CASE i > Len(es) -> List(<<>>)
      [] i <= Len(es) /\ dotted /\ i > 1 /\ es[i] = _unquote ->
           IF i + 1 = Len(es) /\ isa_list(OperandValue(es[i + 1]))
           THEN OperandValue(es[i + 1]) ELSE Undef
      [] OTHER ->
           LET rest == StructureFrom(es, i + 1, dotted)
               this == IF is_pair(es[i]) /\ es[i] = UQS(es[i].list[Len(es[i].list)])
                       THEN OperandValue(es[i].list[2])
                       ELSE List(<<Structure(es[i], dotted)>>)
           IN IF \/ rest = Undef
                 \/ ~isa_list(this)
                 \/ Undef \in {this.list[k] : k \in 1..Len(this.list)}
              THEN Undef
              ELSE List(this.list \o rest.list)

\* C6 (as the code has it): the code of an accepted template evaluates to the
\* template with each (unquote e) replaced by the value of e and each
\* (unquote-splicing e) by the elements of the value of e, except that the
\* symbol unquote followed by one last element e, after the head of a list,
\* stands for the elements of the value of e: (1 unquote b) is (1 7 8)
QuasiquoteStructure ==
    (scn.kind = "quasi" /\ pc = "done") =>
        IF Structure(scn.form, TRUE) = Undef THEN exc # NoExc
        ELSE exc = NoExc /\ val = Structure(scn.form, TRUE)
QuasiquoteStructureWitness ==
    /\ scn.kind = "quasi"
    /\ pc = "done"
    /\ scn.form = List(<<Num(1), _unquote, Sym("b")>>)
    /\ val = List(<<Num(1), Num(7), Num(8)>>)
\* C6 (as stated): a list that contains the symbol unquote after its head is
\* reproduced unchanged
QuasiquoteUnquoteSymbolKept ==
    (scn.kind = "quasi" /\ pc = "done" /\ exc = NoExc) => val = Structure(scn.form, FALSE)

\* (if p_i (if ... p_n #f) #f), the expansion of (and p_i ... p_n)
RECURSIVE AndIfs(_, _)
AndIfs(i, n) ==
    IF n = 0 THEN Bool(TRUE)
    ELSE IF i = n THEN Parm(n)
    ELSE If3(Parm(i), AndIfs(i + 1, n), Bool(FALSE))
\* (if (not p_i) (if ... p_n #t) #t), the expansion of (or p_i ... p_n)
RECURSIVE OrIfs(_, _)
OrIfs(i, n) ==
    IF n = 0 THEN Bool(FALSE)
    ELSE IF i = n THEN Parm(n)
    ELSE If3(App1("not", Parm(i)), OrIfs(i + 1, n), Bool(TRUE))
\* the operands evaluated: the parameters dispatched in the history
OperandsEvaluated == {i \in 1..scn.n : EvalsOf(Parm(i)) # <<>>}
\* the first falsy operand before the last one, or the last one
LastEvaluated ==
    IF \E i \in 1..(scn.n - 1) : ~truthy(scn.args[i])
    THEN CHOOSE i \in 1..(scn.n - 1) :
             ~truthy(scn.args[i]) /\ \A j \in 1..(i - 1) : truthy(scn.args[j])
    ELSE scn.n

\* C7 (as the code has it): and / or expand to nested if forms with no macro use
\* left; (and) is #t, (and e1 ... en) is the value of en when e1 .. e(n-1) are
\* truthy and #f otherwise, no operand after the first falsy one evaluated;
\* (or) is #f, and (or e1 ... en) with every operand falsy is the value of en,
\* which need not be #f: (or 0) is 0
AndOrMacros ==
    /\ (scn.kind = "andor" /\ pc \in {"parsed", "done"}) =>
          x = Call(Lambda(List(Parms(scn.n)),
                          IF scn.shape = "and" THEN AndIfs(1, scn.n) ELSE OrIfs(1, scn.n)),
                   Literals(scn.args))
    /\ (scn.kind = "andor" /\ scn.shape = "and" /\ pc = "done") =>
          /\ exc = NoExc
          /\ val = IF scn.n = 0 THEN Bool(TRUE)
                   ELSE IF LastEvaluated = scn.n THEN scn.args[scn.n]
                   ELSE Bool(FALSE)
          /\ OperandsEvaluated = 1..LastEvaluated
          /\ \A i \in OperandsEvaluated : Len(EvalsOf(Parm(i))) = 1
    /\ (scn.kind = "andor" /\ scn.shape = "or" /\ pc = "done"
          /\ \A i \in 1..scn.n : ~truthy(scn.args[i])) =>
          /\ exc = NoExc
          /\ val = IF scn.n = 0 THEN Bool(FALSE) ELSE scn.args[scn.n]
AndOrMacrosWitness ==
    /\ scn.kind = "andor"
    /\ scn.shape = "or"
    /\ pc = "done"
    /\ scn.args = <<Bool(FALSE), Bool(FALSE), List(<<>>)>>
    /\ val = List(<<>>)
\* C7 (as stated): (or e1 ... en) is #f when every operand is falsy
OrOfFalsyIsFalse ==
    (scn.kind = "andor" /\ scn.shape = "or" /\ pc = "done"
       /\ \A i \in 1..scn.n : ~truthy(scn.args[i])) =>
        /\ exc = NoExc
        /\ val = Bool(FALSE)

\* C8: a cond whose tests are all falsy finishes with no result, each test
\* evaluated once
CondNoMatchFinishes ==
    (scn.kind = "cond" /\ pc \notin {"read", "parsed"}) =>
        /\ pc = "done"
        /\ exc = NoExc
        /\ val = None
        /\ Len(EvalsOf(scn.form)) = 1

\* the value of the expression of a define-macro, evaluated in global_env
MacroValue(e) ==
    IF isa_Symbol(e) THEN Native(str(e)) ELSE Procedure(e.list[2], e.list[3], global_env)

\* C9: (define-macro var e) at top level, inside any number of begin forms,
\* stores the value of e under var and expands to None; anywhere else it raises
\* SyntaxError and the macro table stays as it was; no call removes an entry
DefineMacroTopLevelOnly ==
    /\ \A name \in DOMAIN pre.macro_table : name \in DOMAIN macro_table
    /\ (scn.kind = "defmacro" /\ scn.shape = "toplevel" /\ pc # "read") =>
          /\ exc = NoExc
          /\ x = Begins(scn.n, None)
          /\ macro_table = (str(scn.args[1]) :> MacroValue(scn.form)) @@ boot.macro_table
          /\ pc = "done" => val = None
    /\ (scn.kind = "defmacro" /\ scn.shape # "toplevel" /\ pc # "read") =>
          /\ pc = "error"
          /\ exc = SyntaxError(DefMacro(str(scn.args[1]), scn.form),
                               "define-macro only allowed at top level")
          /\ macro_table = pre.macro_table
DefineMacroTopLevelOnlyWitness ==
    /\ scn.kind = "defmacro"
    /\ scn.shape = "lambda-begin"
    /\ pc = "error"
    /\ exc.exc = "SyntaxError"
    /\ macro_table = boot.macro_table

\* a form of canonical core shape in an evaluated position
RECURSIVE Canonical(_)
CanonicalAll(es) == \A i \in 1..Len(es) : Canonical(es[i])
Canonical(e) ==
    CASE ~isa_list(e) -> TRUE
      [] e = List(<<>>) -> FALSE
      [] head(e) = _quote -> Len(e.list) = 2
      [] head(e) = _if -> Len(e.list) = 4 /\ CanonicalAll(Tail(e.list))
      [] head(e) \in {_set, _define} ->
           Len(e.list) = 3 /\ isa_Symbol(e.list[2]) /\ Canonical(e.list[3])
      [] head(e) = _lambda ->
           /\ Len(e.list) = 3
           /\ \/ isa_Symbol(e.list[2])
              \/ isa_list(e.list[2]) /\ \A i \in 1..Len(e.list[2].list) :
                                            isa_Symbol(e.list[2].list[i])
           /\ Canonical(e.list[3])
      [] head(e) = _begin -> CanonicalAll(Tail(e.list))
      [] head(e) = _cond ->
           \A i \in 2..Len(e.list) : isa_list(e.list[i]) /\ CanonicalAll(e.list[i].list)
      [] head(e) = _quasiquote -> FALSE
      [] OTHER ->
           /\ ~(isa_Symbol(head(e)) /\ str(head(e)) \in DOMAIN boot.macro_table)
           /\ CanonicalAll(e.list)

\* C10: what expand returns holds canonical core forms in every evaluated
\* position, and eval does not fail unpacking a special form
ExpandReturnsCanonical ==
    (scn.kind = "expand" /\ pc \in {"parsed", "done"}) =>
        /\ Canonical(x)
        /\ pc = "done" => exc.exc # "ValueError"

====
